---- MODULE Spec2Model ----
(***************************************************************************)
(* vaultkey: PasswordBuilder (src/src/builder.rs) and generate_password.   *)
(*                                                                         *)
(* The builder is a value holding PasswordOptions; each setter overwrites  *)
(* one field; build() calls generate_password(&self.options).              *)
(* generate_password is modelled statement by statement: pool assembly,    *)
(* the ambiguity filter and the two validations happen at the call, then   *)
(* one step per iteration of the two seeding loops and of the fill loop,   *)
(* then the shuffle and the return.  Every value the random generator can  *)
(* return is a nondeterministic choice.                                    *)
(***************************************************************************)
EXTENDS Integers, Sequences, FiniteSets, TLC

(***************************************************************************)
(* Bounds of the exploration.                                              *)
(***************************************************************************)
\* Largest argument given to length(); build() of a longer password is not explored.
MaxLength == 5
\* Largest argument given to min_digits() and min_specials().
MaxMin == 6
\* The characters the exploration lets the random generator land on: at
\* least one unambiguous character of every class, and ambiguous ones.
Sampled == {"A", "a", "0", "2", "!"}

(***************************************************************************)
(* src/src/constants.rs                                                    *)
(***************************************************************************)
UPPERCASE ==
    << "A", "B", "C", "D", "E", "F", "G", "H", "I", "J", "K", "L", "M",
       "N", "O", "P", "Q", "R", "S", "T", "U", "V", "W", "X", "Y", "Z" >>
LOWERCASE ==
    << "a", "b", "c", "d", "e", "f", "g", "h", "i", "j", "k", "l", "m",
       "n", "o", "p", "q", "r", "s", "t", "u", "v", "w", "x", "y", "z" >>
DIGITS == << "0", "1", "2", "3", "4", "5", "6", "7", "8", "9" >>
SPECIALS ==
    << "!", "@", "#", "$", "%", "^", "&", "*", "(", ")", "-", "_", "=", "+",
       "[", "]", "{", "}", "|", ";", ":", ",", ".", "<", ">", "?", "/" >>
AMBIGUOUS == << "I", "l", "1", "O", "0" >>

\* str::contains(char)
contains(s, c) == \E k \in 1..Len(s) : s[k] = c

\* The fixed minimum of the length check in generate_password.
MinLength == 5

(***************************************************************************)
(* State.                                                                  *)
(***************************************************************************)
VARIABLES
    self,       \* the builder's PasswordOptions
    args,       \* history: the last argument given to each setter (the default before any call)
    pc,         \* "builder", or the position inside generate_password, or "done"
    options,    \* generate_password's parameter (NoOptions outside a call)
    pool,       \* local `pool` after the filter
    password,   \* local `password`
    i,          \* iterations done in the current `for` loop
    result      \* what build() returned

vars == << self, args, pc, options, pool, password, i, result >>

\* impl Default for PasswordBuilder
DefaultOptions ==
    [ length            |-> 12,
      include_uppercase |-> TRUE,
      include_lowercase |-> TRUE,
      include_digits    |-> TRUE,
      include_specials  |-> TRUE,
      min_digits        |-> 1,
      min_specials      |-> 1,
      avoid_ambiguous   |-> FALSE ]

\* the defaults as the doc comment of `default` lists them; the history starts there
DocumentedDefaults ==
    [ length            |-> 12,
      include_uppercase |-> TRUE,
      include_lowercase |-> TRUE,
      include_digits    |-> TRUE,
      include_specials  |-> TRUE,
      min_digits        |-> 1,
      min_specials      |-> 1,
      avoid_ambiguous   |-> FALSE ]

\* no call of generate_password is in progress
NoOptions == [ DefaultOptions EXCEPT !.length = 0 - 1 ]

NoResult == [ tag |-> "None", err |-> "", value |-> << >> ]
Ok(chars) == [ tag |-> "Ok", err |-> "", value |-> chars ]
Err(e) == [ tag |-> "Err", err |-> e, value |-> << >> ]

\* VaultKeyError
PasswordTooShort == "PasswordTooShort"
NoCharacterTypesSelected == "NoCharacterTypesSelected"

Init ==
    /\ self = DefaultOptions
    /\ args = DocumentedDefaults
    /\ pc = "builder"
    /\ options = NoOptions
    /\ pool = << >>
    /\ password = << >>
    /\ i = 0
    /\ result = NoResult

(***************************************************************************)
(* The setters.                                                            *)
(***************************************************************************)
Lengths == 0..MaxLength
Mins == 0..MaxMin

Setter(field, value, written) ==
    /\ pc = "builder"
    /\ self' = written
    /\ args' = [ args EXCEPT ![field] = value ]
    /\ UNCHANGED << pc, options, pool, password, i, result >>

set_length(o, len) == [ o EXCEPT !.length = len ]
set_with_uppercase(o, include) == [ o EXCEPT !.include_uppercase = include ]
set_with_lowercase(o, include) == [ o EXCEPT !.include_lowercase = include ]
set_with_digits(o, include) == [ o EXCEPT !.include_digits = include ]
set_with_specials(o, include) == [ o EXCEPT !.include_specials = include ]
set_min_digits(o, min) == [ o EXCEPT !.min_digits = min ]
\* a slip of the pen: min_specials() writes the digits' minimum
set_min_specials_wrong_field(o, min) == [ o EXCEPT !.min_digits = min ]
set_min_specials(o, min) == [ o EXCEPT !.min_specials = min ]
set_avoid_ambiguous(o, avoid) == [ o EXCEPT !.avoid_ambiguous = avoid ]

length == \E len \in Lengths : Setter("length", len, set_length(self, len))
with_uppercase ==
    \E include \in BOOLEAN :
        Setter("include_uppercase", include, set_with_uppercase(self, include))
with_lowercase ==
    \E include \in BOOLEAN :
        Setter("include_lowercase", include, set_with_lowercase(self, include))
with_digits ==
    \E include \in BOOLEAN :
        Setter("include_digits", include, set_with_digits(self, include))
with_specials ==
    \E include \in BOOLEAN :
        Setter("include_specials", include, set_with_specials(self, include))
min_digits == \E min \in Mins : Setter("min_digits", min, set_min_digits(self, min))
min_specials == \E min \in Mins : Setter("min_specials", min, set_min_specials(self, min))
avoid_ambiguous ==
    \E avoid \in BOOLEAN :
        Setter("avoid_ambiguous", avoid, set_avoid_ambiguous(self, avoid))

(***************************************************************************)
(* generate_password                                                       *)
(***************************************************************************)
Min(a, b) == IF a <= b THEN a ELSE b

\* usize::saturating_sub
saturating_sub(a, b) == IF a >= b THEN a - b ELSE 0

\* pool.chars().filter(|c| !AMBIGUOUS.contains(*c)).collect()
NotAmbiguous(c) == ~ contains(AMBIGUOUS, c)
without_ambiguous(chars) == SelectSeq(chars, NotAmbiguous)

\* a slip: the lowercase letters are pushed under the uppercase flag
build_pool_wrong_flag(o) ==
    LET p1 == IF o.include_uppercase THEN UPPERCASE ELSE << >>
        p2 == IF o.include_uppercase THEN p1 \o LOWERCASE ELSE p1
        p3 == IF o.include_digits THEN p2 \o DIGITS ELSE p2
        p4 == IF o.include_specials THEN p3 \o SPECIALS ELSE p3
    IN  IF o.avoid_ambiguous THEN without_ambiguous(p4) ELSE p4

\* lines 154-171: the pool of the included classes, filtered
build_pool(o) ==
    LET p1 == IF o.include_uppercase THEN UPPERCASE ELSE << >>
        p2 == IF o.include_lowercase THEN p1 \o LOWERCASE ELSE p1
        p3 == IF o.include_digits THEN p2 \o DIGITS ELSE p2
        p4 == IF o.include_specials THEN p3 \o SPECIALS ELSE p3
    IN  IF o.avoid_ambiguous THEN without_ambiguous(p4) ELSE p4

\* lines 185-195
available_length(o) == o.length
\* a slip: the digits are clamped against what the specials leave
clamped_min_digits_after_specials(o) ==
    Min(o.min_digits,
        IF o.include_digits THEN saturating_sub(o.length, o.min_specials) ELSE 0)
clamped_min_digits(o) ==
    Min(o.min_digits, IF o.include_digits THEN available_length(o) ELSE 0)
\* a slip: the specials are clamped against the whole length
clamped_min_specials_unreserved(o) ==
    Min(o.min_specials, IF o.include_specials THEN available_length(o) ELSE 0)
\* a slip: the requested min_digits is subtracted, not the clamped one
clamped_min_specials_requested(o) ==
    Min(o.min_specials,
        IF o.include_specials
        THEN saturating_sub(available_length(o), o.min_digits)
        ELSE 0)
clamped_min_specials(o) ==
    Min(o.min_specials,
        IF o.include_specials
        THEN saturating_sub(available_length(o), clamped_min_digits(o))
        ELSE 0)

\* lines 198-208
filter_ambiguous(o, chars) ==
    IF o.avoid_ambiguous THEN without_ambiguous(chars) ELSE chars
\* a slip: the seeded digits are drawn from the unfiltered set
digits_chars_unfiltered(o) == DIGITS
digits_chars(o) == filter_ambiguous(o, DIGITS)
special_chars(o) == filter_ambiguous(o, SPECIALS)

\* rng.random_range(0..chars.len()): any index (1-based here); the
\* exploration follows the draws that land on a sampled character.
random_range(chars) == { k \in 1..Len(chars) : chars[k] \in Sampled }

\* a slip: the pool is checked before the length
validate_pool_first(o, p) ==
    IF p = << >> THEN Err(NoCharacterTypesSelected)
    ELSE IF o.length < MinLength THEN Err(PasswordTooShort)
    ELSE NoResult
\* a slip: both checks return the same error
validate_one_error(o, p) ==
    IF o.length < MinLength \/ p = << >> THEN Err(PasswordTooShort)
    ELSE NoResult
\* the behaviour of the `# Returns` doc comment: an empty string, no error
validate_empty_string(o, p) ==
    IF o.length = 0 \/ p = << >> THEN Ok(<< >>)
    ELSE NoResult

\* lines 174-180: the two validations, in the order of the code
validate(o, p) ==
    IF o.length < MinLength THEN Err(PasswordTooShort)
    ELSE IF p = << >> THEN Err(NoCharacterTypesSelected)
    ELSE NoResult

\* build(): generate_password(&self.options), up to the first seeding loop
build ==
    /\ pc = "builder"
    /\ self.length <= MaxLength
    /\ options' = self
    /\ pool' = build_pool(self)
    /\ LET v == validate(self, build_pool(self))
       IN  IF v # NoResult
           THEN /\ result' = v
                /\ pc' = "done"
           ELSE /\ result' = NoResult
                /\ pc' = "digits"
    /\ password' = << >>
    /\ i' = 0
    /\ UNCHANGED << self, args >>

\* line 211
digits_guard(o) ==
    o.include_digits /\ clamped_min_digits(o) > 0 /\ digits_chars(o) # << >>

\* lines 212-215: one iteration
push_digit ==
    /\ pc = "digits"
    /\ digits_guard(options)
    /\ i < clamped_min_digits(options)
    /\ \E idx \in random_range(digits_chars(options)) :
          password' = Append(password, digits_chars(options)[idx])
    /\ i' = i + 1
    /\ UNCHANGED << self, args, pc, options, pool, result >>

\* the loop is over, or the `if` of line 211 is false
end_digits ==
    /\ pc = "digits"
    /\ ~ digits_guard(options) \/ i = clamped_min_digits(options)
    /\ pc' = "specials"
    /\ i' = 0
    /\ UNCHANGED << self, args, options, pool, password, result >>

\* line 219
specials_guard(o) ==
    o.include_specials /\ clamped_min_specials(o) > 0 /\ special_chars(o) # << >>

\* lines 220-223: one iteration
push_special ==
    /\ pc = "specials"
    /\ specials_guard(options)
    /\ i < clamped_min_specials(options)
    /\ \E idx \in random_range(special_chars(options)) :
          password' = Append(password, special_chars(options)[idx])
    /\ i' = i + 1
    /\ UNCHANGED << self, args, pc, options, pool, result >>

end_specials ==
    /\ pc = "specials"
    /\ ~ specials_guard(options) \/ i = clamped_min_specials(options)
    /\ pc' = "fill"
    /\ i' = 0
    /\ UNCHANGED << self, args, options, pool, password, result >>

\* a slip: `<=` for `<`
fill_guard_inclusive(pw, o) == Len(pw) <= o.length
\* line 227
fill_guard(pw, o) == Len(pw) < o.length

\* lines 228-229: one iteration of the while loop
fill ==
    /\ pc = "fill"
    /\ fill_guard(password, options)
    /\ \E idx \in random_range(pool) :
          password' = Append(password, pool[idx])
    /\ UNCHANGED << self, args, pc, options, pool, i, result >>

\* password_chars.shuffle(&mut rng): every rearrangement of the characters
\* (built one distinct leading character at a time)
first_index(chars, c) ==
    CHOOSE k \in 1..Len(chars) :
        chars[k] = c /\ \A j \in 1..(k - 1) : chars[j] # c
remove_at(chars, k) == SubSeq(chars, 1, k - 1) \o SubSeq(chars, k + 1, Len(chars))
RECURSIVE shuffle(_)
shuffle(chars) ==
    IF chars = << >> THEN { << >> }
    ELSE UNION { { << c >> \o rest :
                     rest \in shuffle(remove_at(chars, first_index(chars, c))) } :
                 c \in { chars[k] : k \in 1..Len(chars) } }

\* lines 233-235
finish ==
    /\ pc = "fill"
    /\ ~ fill_guard(password, options)
    /\ \E shuffled \in shuffle(password) : result' = Ok(shuffled)
    /\ pc' = "done"
    /\ password' = << >>
    /\ pool' = << >>
    /\ UNCHANGED << self, args, options, i >>

\* build(self) consumed the builder; the caller starts from PasswordBuilder::default() again
default ==
    /\ pc = "done"
    /\ self' = DefaultOptions
    /\ args' = DocumentedDefaults
    /\ pc' = "builder"
    /\ options' = NoOptions
    /\ pool' = << >>
    /\ password' = << >>
    /\ i' = 0
    /\ result' = NoResult

Next ==
    \/ length
    \/ with_uppercase
    \/ with_lowercase
    \/ with_digits
    \/ with_specials
    \/ min_digits
    \/ min_specials
    \/ avoid_ambiguous
    \/ build
    \/ push_digit
    \/ end_digits
    \/ push_special
    \/ end_specials
    \/ fill
    \/ finish
    \/ default

Spec == Init /\ [][Next]_vars

(***************************************************************************)
(* Vocabulary of the properties.                                           *)
(***************************************************************************)
InCall == pc \in {"digits", "specials", "fill"}
Returned == pc = "done"
Succeeded == pc = "done" /\ result.tag = "Ok"

AnyIncluded(o) ==
    o.include_uppercase \/ o.include_lowercase \/ o.include_digits \/ o.include_specials

count_in(chars, class) == Cardinality({ k \in 1..Len(chars) : contains(class, chars[k]) })
all_in(chars, class) == \A k \in 1..Len(chars) : contains(class, chars[k])
none_in(chars, class) == \A k \in 1..Len(chars) : ~ contains(class, chars[k])

\* the union of the classes whose include_* flag is true
Allowed(o, c) ==
    \/ o.include_uppercase /\ contains(UPPERCASE, c)
    \/ o.include_lowercase /\ contains(LOWERCASE, c)
    \/ o.include_digits /\ contains(DIGITS, c)
    \/ o.include_specials /\ contains(SPECIALS, c)

\* the effective minimums as the specification words them
EffectiveMinDigits(o) ==
    IF o.include_digits THEN Min(o.min_digits, o.length) ELSE 0
EffectiveMinSpecials(o) ==
    IF o.include_specials THEN Min(o.min_specials, o.length - EffectiveMinDigits(o)) ELSE 0

\* one more statement of generate_password can run (no draw from an empty range)
CanStep == ENABLED (push_digit \/ end_digits \/ push_special \/ end_specials \/ fill)

AllIncluded(o) ==
    o.include_uppercase /\ o.include_lowercase /\ o.include_digits /\ o.include_specials

(***************************************************************************)
(* C1: with length >= 5 and at least one class included, every statement   *)
(* of generate_password can run whatever was drawn, and the call returns   *)
(* Ok with exactly `length` characters, whatever the two minimums are.     *)
(***************************************************************************)
C1_ExactLength ==
    /\ (InCall /\ ~ (pc = "fill" /\ ~ fill_guard(password, options))) => CanStep
    /\ (Returned /\ options.length >= 5 /\ AnyIncluded(options)) =>
           (result.tag = "Ok" /\ Len(result.value) = options.length)

C1_Witness ==
    /\ Succeeded
    /\ options.length = 5 /\ options.min_digits = 3 /\ options.min_specials = 4
    /\ AllIncluded(options)
    /\ Len(result.value) = 5

C4_NoAmbiguous ==
    /\ (InCall /\ options.avoid_ambiguous) => none_in(password, AMBIGUOUS)
    /\ (Succeeded /\ options.avoid_ambiguous) => none_in(result.value, AMBIGUOUS)

C4_Witness ==
    /\ Succeeded
    /\ options.avoid_ambiguous
    /\ AllIncluded(options)
    /\ options.min_digits = 3 /\ options.min_specials = 1
    /\ count_in(result.value, DIGITS) = 4

(***************************************************************************)
(* C5: with digits included, a returned password holds at least            *)
(* min(min_digits, length) digits.                                         *)
(***************************************************************************)
C5_MinDigits ==
    (Succeeded /\ options.include_digits) =>
        count_in(result.value, DIGITS) >= Min(options.min_digits, options.length)

C5_Witness ==
    /\ Succeeded
    /\ options.include_digits /\ options.include_uppercase
    /\ options.min_digits = 4 /\ options.length = 5 /\ options.min_specials = 4
    /\ count_in(result.value, DIGITS) = 4
    /\ result.value[1] = "!"

(***************************************************************************)
(* C6: with specials included, a returned password holds at least          *)
(* min(min_specials, length - effective min_digits) specials; for          *)
(* length 5, min_digits 3, min_specials 4 that is 3 digits and 2 specials. *)
(***************************************************************************)
C6_MinSpecials ==
    /\ (Succeeded /\ options.include_specials) =>
           count_in(result.value, SPECIALS) >=
               Min(options.min_specials, options.length - EffectiveMinDigits(options))
    /\ (Succeeded /\ AllIncluded(options) /\ options.length = 5
           /\ options.min_digits = 3 /\ options.min_specials = 4) =>
           (count_in(result.value, DIGITS) >= 3 /\ count_in(result.value, SPECIALS) >= 2)

C6_Witness ==
    /\ Succeeded
    /\ AllIncluded(options) /\ options.length = 5
    /\ options.min_digits = 3 /\ options.min_specials = 4
    /\ count_in(result.value, DIGITS) = 3
    /\ count_in(result.value, SPECIALS) = 2

(***************************************************************************)
(* C7: every character of the password being built, and of the returned    *)
(* password, belongs to a class whose include_* flag is true.              *)
(***************************************************************************)
C7_OnlyIncluded ==
    /\ InCall => \A k \in 1..Len(password) : Allowed(options, password[k])
    /\ Succeeded => \A k \in 1..Len(result.value) : Allowed(options, result.value[k])

C7_Witness ==
    /\ Succeeded
    /\ options.include_uppercase
    /\ ~ options.include_lowercase /\ ~ options.include_digits /\ ~ options.include_specials
    /\ options.min_digits = 2 /\ options.min_specials = 2
    /\ all_in(result.value, UPPERCASE)

C9_LastSetterWins ==
    /\ self = args
    /\ pc # "builder" => options = args
    /\ Returned =>
           /\ result # NoResult
           /\ result.tag = "Ok" => Len(result.value) = args.length

C9_Witness ==
    /\ Returned
    /\ args.length = 5 /\ args.min_digits = 6 /\ args.min_specials = 2
    /\ ~ args.include_lowercase /\ args.include_uppercase
    /\ args.avoid_ambiguous
    /\ self = args

(***************************************************************************)
(* C10: the effective minimums never add up to more than length; the       *)
(* seeding loops push exactly that many characters, digits first, the fill *)
(* loop pushes the rest, and the password never grows past length.         *)
(***************************************************************************)
C10_Seeded(o) == EffectiveMinDigits(o) + EffectiveMinSpecials(o)

C10_WithinLength ==
    InCall =>
        /\ C10_Seeded(options) <= options.length
        /\ Len(password) <= options.length
        /\ pc = "digits" =>
               (Len(password) = i /\ i <= EffectiveMinDigits(options))
        /\ pc = "specials" =>
               /\ Len(password) = EffectiveMinDigits(options) + i
               /\ i <= EffectiveMinSpecials(options)
        /\ pc = "fill" =>
               /\ Len(password) >= C10_Seeded(options)
               /\ all_in(SubSeq(password, 1, EffectiveMinDigits(options)), DIGITS)
               /\ all_in(SubSeq(password, EffectiveMinDigits(options) + 1,
                                C10_Seeded(options)), SPECIALS)

C10_Witness ==
    /\ pc = "fill"
    /\ options.length = 5 /\ options.min_digits = 2 /\ options.min_specials = 6
    /\ AllIncluded(options)
    /\ Len(password) = 5

====
